---- MODULE Spec2Model ----
(***************************************************************************)
(* Model of operation_event/signals.py: the event emitter (_emit_event,    *)
(* deferred to the commit of the enclosing atomic block) and the record    *)
(* flattener (_model_to_dict).                                             *)
(***************************************************************************)
EXTENDS Integers, Sequences, FiniteSets, TLC

(***************************************************************************)
(* Bounds of the emitter model.                                            *)
(***************************************************************************)
MaxCalls == 2
MaxBlocks == 2
MaxDepth == 2
MaxSignals == 2

Null == [t |-> "null"]

(***************************************************************************)
(* Ambient request context (crum.get_current_request).  A request carries  *)
(* the client address, the user object and the HTTP_USER_AGENT header.     *)
(* "anon" is AnonymousUser: a truthy object whose username is "".          *)
(***************************************************************************)
Username == [u \in {"u1"} |-> "alice"]
NoRequest == [kind |-> "none"]
Requests ==
    { [kind |-> "request", ip |-> "10.0.0.1", user |-> "u1", ua |-> "UA/1"] }

\* A request of a visitor who is not logged in, sent without a User-Agent.
AnonymousRequest ==
    [kind |-> "request", ip |-> "10.0.0.2", user |-> "anon", ua |-> "none"]

\* signals.py line 45: namespace = __name__
namespace == "operation_event.signals"

\* str.lower() on the sender names used by the handlers.
Lower ==
    [n \in {"ForumPost", "CourseGrade", "SubsectionGrade", "CourseOverview",
            "CourseAccessRole", "User", "UserProfile", "CourseEnrollment",
            "BlockCompletion", "ProctoredExamStudentAttempt", "Submission",
            "Score", "Site"} |->
        CASE n = "ForumPost" -> "forumpost"
          [] n = "CourseGrade" -> "coursegrade"
          [] n = "SubsectionGrade" -> "subsectiongrade"
          [] n = "CourseOverview" -> "courseoverview"
          [] n = "CourseAccessRole" -> "courseaccessrole"
          [] n = "User" -> "user"
          [] n = "UserProfile" -> "userprofile"
          [] n = "CourseEnrollment" -> "courseenrollment"
          [] n = "BlockCompletion" -> "blockcompletion"
          [] n = "ProctoredExamStudentAttempt" -> "proctoredexamstudentattempt"
          [] n = "Submission" -> "submission"
          [] n = "Score" -> "score"
          [] n = "Site" -> "site"]

\* The argument tuples _emit_event is called with: a string tag or a model
\* class as sender, a JSON-serializable message, the tri-state flags.
EmitArgs ==
    { [sender |-> [kind |-> "str", name |-> "ForumPost"], message |-> "m1",
       created |-> "true", deleted |-> "false"],
      [sender |-> [kind |-> "class", name |-> "Score"], message |-> "m2",
       created |-> "null", deleted |-> "null"] }

VARIABLES
    atomic,         \* stack of the open atomic blocks (block ids), outermost first
    run_on_commit,  \* the connection's commit hooks, in registration order
    phase,          \* "idle", or "hooks" while the commit hooks are being run
    sink,           \* lines handed to logger.info, in order
    request,        \* ambient request of the thread
    clock,          \* wall clock: every operation of the thread takes time
    calls,          \* history: one entry per _emit_event call
    outcome,        \* history: what became of every atomic block
    nextBlock,      \* next fresh block id
    world,          \* the records reachable from the instance being flattened
    field_names,    \* the whitelist of the top-level _model_to_dict call
    idx,            \* position of the top-level loop in field_names
    result,         \* the result dict of the top-level call
    related_model_cache, \* the cache shared by the call and its nested calls
    getattr_log,    \* history: every getattr(instance, key, None) of line 395
    status,         \* "idle", "running", "returned" or "raised"
    first_call,     \* history: what an earlier _model_to_dict call returned
    signals         \* history: one entry per handler invocation

evars == <<atomic, run_on_commit, phase, sink, request, clock, calls,
           outcome, nextBlock>>

fvars == <<world, field_names, idx, result, related_model_cache, getattr_log,
           status>>

hvars == <<first_call, signals>>

vars == <<evars, fvars, hvars>>

\* transaction.get_connection().in_atomic_block
in_atomic_block == Len(atomic) > 0

\* sender = sender if isinstance(sender, str) else sender.__name__
SenderName(sender) == sender.name

\* get_client_ip(request) if request else (None, None)
ClientIp(req) == IF req.kind = "request" THEN req.ip ELSE "null"

\* request.user.username if request and request.user else None
RequestUsername(req) ==
    IF req.kind = "request"
    THEN IF req.user = "anon" THEN "" ELSE Username[req.user]
    ELSE "null"

\* request.META.get("HTTP_USER_AGENT", None) if request else None
UserAgent(req) ==
    IF req.kind = "request"
    THEN IF req.ua = "none" THEN "null" ELSE req.ua
    ELSE "null"

\* str(localtime()): the textual form of the wall clock at build time.
TimeStr(t) == <<"time", t>>

\* The event dict built by _emit_event.
BuildEvent(args, req, t) ==
    [event_type |-> namespace \o "." \o Lower[SenderName(args.sender)],
     message |-> args.message,
     created |-> args.created,
     deleted |-> args.deleted,
     time |-> TimeStr(t),
     client_ip |-> ClientIp(req),
     request_username |-> RequestUsername(req),
     user_agent |-> UserAgent(req)]

\* json.dumps(e): the line of text for an event.
JsonDumps(e) == <<"json", e>>

\* A commit hook that builds the event again when it runs.
HookEventRebuilt(h) == BuildEvent(calls[h.call].args, request, clock)

\* What the commit hook  lambda: emit(event)  hands to emit: the dict built
\* at the call, captured by the closure.
HookEvent(h) == h.event

\* emit(e): one line appended to the log; the call id is history only.
Emitted(s, c, e) == Append(s, [call |-> c, line |-> JsonDumps(e)])

(***************************************************************************)
(* The flattener, _model_to_dict.                                          *)
(*                                                                         *)
(* Python values: None, int, str, an object json.dumps rejects (a datetime,*)
(* a CourseKey), a related manager, a model instance, a dict.              *)
(***************************************************************************)
MaxPaths == 3

None == Null
IntV(n) == [t |-> "int", v |-> n]
StrV(x) == [t |-> "str", v |-> x]
ObjV(x) == [t |-> "obj", v |-> x]
Manager == [t |-> "manager"]
Model(id) == [t |-> "model", id |-> id]
Dict(d) == [t |-> "dict", v |-> d]

\* {}
EmptyDict == [k \in {} |-> None]

\* d[k] = v
Put(d, k, v) == [x \in DOMAIN d \cup {k} |-> IF x = k THEN v ELSE d[x]]

\* d.update(e)
Update(d, e) == [x \in DOMAIN d \cup DOMAIN e |-> IF x \in DOMAIN e THEN e[x] ELSE d[x]]

\* bool(value), as tested by  if not value
Truthy(v) ==
    CASE v.t = "null" -> FALSE
      [] v.t = "int" -> v.v # 0
      [] v.t = "str" -> v.v # ""
      [] v.t = "dict" -> DOMAIN v.v # {}
      [] OTHER -> TRUE

\* json.dumps(value) succeeds
JsonEncodable(v) == v.t \in {"null", "int", "str", "dict"}

\* str(value) of a value json.dumps rejects
StrOf(v) ==
    CASE v.t = "obj" -> StrV(v.v)
      [] v.t = "model" -> StrV("Model object (" \o v.id \o ")")
      [] OTHER -> StrV("<Manager object>")

\* The records a flattening call can reach.  r is the instance handed to the
\* top-level call; a is the record behind its relation a, b the record behind
\* a.b, u the record behind its relation user.  The parameters choose the
\* value of r.x, whether r has a user attribute and whether it is null,
\* whether relation a is null, and the primary key of a.
WorldOf(x, user, a, apk) ==
    [r |-> [pk |-> IntV(7),
            attrs |-> [n \in {"id", "x", "user_id", "a", "items", "when"}
                             \cup (IF user = "absent" THEN {} ELSE {"user"}) |->
                CASE n = "id" -> IntV(7)
                  [] n = "x" -> x
                  [] n = "user_id" -> IntV(42)
                  [] n = "a" -> IF a = "none" THEN None ELSE Model("a")
                  [] n = "items" -> Manager
                  [] n = "when" -> ObjV("2024-01-01 00:00:00+00:00")
                  [] n = "user" -> IF user = "none" THEN None ELSE Model("u")]],
     a |-> [pk |-> apk,
            attrs |-> [n \in {"id", "x", "y", "b"} |->
                CASE n = "id" -> apk
                  [] n = "x" -> IntV(9)
                  [] n = "y" -> StrV("abc")
                  [] n = "b" -> Model("b")]],
     b |-> [pk |-> IntV(4),
            attrs |-> [n \in {"id", "x"} |->
                CASE n = "id" -> IntV(4)
                  [] n = "x" -> StrV("deep")]],
     u |-> [pk |-> IntV(42),
            attrs |-> [n \in {"id", "username"} |->
                CASE n = "id" -> IntV(42)
                  [] n = "username" -> StrV("alice")]]]

Worlds ==
    { WorldOf(x, user, "model", apk) :
        x \in {IntV(0), IntV(5)},
        user \in {"absent", "none", "model"},
        apk \in {IntV(3), ObjV("course-v1:X+Y")} }
    \cup
    { WorldOf(x, user, "none", IntV(3)) :
        x \in {IntV(0), IntV(5)},
        user \in {"absent", "none", "model"} }

\* Field paths, split at "__": <<"a", "x">> is "a__x".  split("__", 1) takes
\* the first segment as key and leaves the rest as the child key.
Paths ==
    { <<"id">>, <<"x">>, <<"user_id">>, <<"a">>, <<"items">>, <<"when">>,
      <<"ghost">>, <<"a", "x">>, <<"a", "y">>, <<"a", "b", "x">> }

\* The whitelists handed to the top-level call.
Whitelists == UNION { [1..n -> Paths] : n \in 1..MaxPaths }

\* getattr(instance, key, None)
GetAttr(w, instance, key) ==
    IF instance.t = "model" /\ key \in DOMAIN w[instance.id].attrs
    THEN w[instance.id].attrs[key]
    ELSE None

\* hasattr(instance, key)
HasAttr(w, instance, key) ==
    instance.t = "model" /\ key \in DOMAIN w[instance.id].attrs

\* related_model_cache.get(key) gave a value that passes  if not value
CacheHit(cache, key) == key \in DOMAIN cache /\ Truthy(cache[key])

\* A flattener without the user_id branch.
UserIdBranchOff(w, instance, key) == FALSE

\* if key == "user_id": if hasattr(instance, "user"):
UserIdBranch(w, instance, key) == key = "user_id" /\ HasAttr(w, instance, "user")

\* isinstance(value, models.Model) and value
IsRelated(value) == value.t = "model" /\ Truthy(value)

\* A flattener that keeps the key of a related record.
CollapseKeyKeep(key, value) == key

\* key = f"{key}_id"
CollapseKey(key, value) == IF IsRelated(value) THEN key \o "_id" ELSE key

\* value = value.pk
CollapseValue(w, value) == IF IsRelated(value) THEN w[value.id].pk ELSE value

\* A flattener that stores every value as it is.
EncodeRaw(v) == v

\* try: json.dumps(value); result[key] = value  except: result[key] = str(value)
Encode(v) == IF JsonEncodable(v) THEN v ELSE StrOf(v)

RECURSIVE JoinPath(_)

\* The text of a path: its segments joined with "__".
JoinPath(segments) ==
    IF Len(segments) = 1 THEN segments[1]
    ELSE segments[1] \o "__" \o JoinPath(Tail(segments))

\* A flattener whose nested call takes the child key as one attribute name.
ChildNamesOpaque(field_name) == << <<JoinPath(Tail(field_name))>> >>

\* key, child_key = field_name.split("__", 1); the nested call gets
\* [child_key], which it splits again at its first "__".
ChildNames(field_name) == <<Tail(field_name)>>

\* The state of a call in progress: its result dict, the shared cache, the
\* getattr history and whether an exception has left the call.
Raise(st) == [st EXCEPT !.raised = TRUE]

RECURSIVE ModelToDictFrom(_, _, _, _)

\* One pass of the loop body of _model_to_dict for field_name.
FieldStep(w, instance, field_name, st) ==
    IF st.raised THEN st ELSE
    LET key == Head(field_name)
        hit == CacheHit(st.cache, key)
        value == IF hit THEN st.cache[key] ELSE GetAttr(w, instance, key)
        st1 == IF hit THEN st
               ELSE [st EXCEPT !.cache = Put(st.cache, key, value),
                               !.log = Append(st.log, <<instance, key>>)]
    IN
    IF Len(field_name) = 1
    THEN IF value.t = "manager"
         THEN st1
         ELSE IF UserIdBranch(w, instance, key)
         THEN LET user == GetAttr(w, instance, "user") IN
              IF HasAttr(w, user, "username")
              THEN [st1 EXCEPT !.result =
                        Put(st1.result, "username", GetAttr(w, user, "username"))]
              ELSE Raise(st1)
         ELSE [st1 EXCEPT !.result =
                   Put(st1.result, CollapseKey(key, value),
                       Encode(CollapseValue(w, value)))]
    ELSE LET nested == ModelToDictFrom(w, value, ChildNames(field_name),
                           [st1 EXCEPT !.result = EmptyDict])
             st2 == [st1 EXCEPT !.cache = nested.cache, !.log = nested.log]
             cur == IF key \in DOMAIN st1.result THEN st1.result[key]
                    ELSE Dict(EmptyDict)
         IN
         IF nested.raised THEN Raise(st2)
         ELSE IF cur.t # "dict" THEN Raise(st2)
         ELSE [st2 EXCEPT !.result =
                   Put(st2.result, key, Dict(Update(cur.v, nested.result)))]

\* The loop of _model_to_dict over the rest of field_names.
ModelToDictFrom(w, instance, names, st) ==
    IF names = <<>> THEN st
    ELSE ModelToDictFrom(w, instance, Tail(names),
                         FieldStep(w, instance, Head(names), st))

\* _model_to_dict(instance, field_names, related_model_cache)
ModelToDict(w, instance, names, cache) ==
    ModelToDictFrom(w, instance, names,
        [result |-> EmptyDict, cache |-> cache, log |-> <<>>, raised |-> FALSE])

\* The instance of the top-level call.
TopInstance == Model("r")

\* The emitter at rest.
EmitterIdle ==
    /\ atomic = <<>>
    /\ run_on_commit = <<>>
    /\ phase = "idle"
    /\ sink = <<>>
    /\ clock = 0
    /\ calls = <<>>
    /\ outcome = <<>>
    /\ nextBlock = 1

\* No earlier flattening call, no handler invoked yet.
NoCall == [made |-> FALSE]

HistoryEmpty ==
    /\ first_call = NoCall
    /\ signals = <<>>

\* No flattening call in progress.
FlattenerIdle ==
    /\ world = WorldOf(IntV(5), "absent", "none", IntV(3))
    /\ field_names = <<>>
    /\ idx = 1
    /\ result = EmptyDict
    /\ related_model_cache = EmptyDict
    /\ getattr_log = <<>>
    /\ status = "idle"

Init ==
    /\ EmitterIdle
    /\ request \in {NoRequest} \cup Requests
    /\ FlattenerIdle
    /\ HistoryEmpty

\* A top-level call _model_to_dict(instance, field_names) has just started:
\* empty result, empty cache.
FlatInit ==
    /\ EmitterIdle
    /\ request = NoRequest
    /\ world \in Worlds
    /\ field_names \in Whitelists
    /\ idx = 1
    /\ result = EmptyDict
    /\ related_model_cache = EmptyDict
    /\ getattr_log = <<>>
    /\ status = "running"
    /\ HistoryEmpty

\* One iteration of the top-level loop: field_names[idx] is processed.
FlattenStep ==
    /\ status = "running"
    /\ idx <= Len(field_names)
    /\ LET st == FieldStep(world, TopInstance, field_names[idx],
                     [result |-> result, cache |-> related_model_cache,
                      log |-> getattr_log, raised |-> FALSE])
       IN
        /\ result' = st.result
        /\ related_model_cache' = st.cache
        /\ getattr_log' = st.log
        /\ status' = IF st.raised THEN "raised" ELSE "running"
        /\ idx' = idx + 1
    /\ UNCHANGED <<world, field_names, evars, hvars>>

\* return result
FlattenReturn ==
    /\ status = "running"
    /\ idx > Len(field_names)
    /\ status' = "returned"
    /\ UNCHANGED <<world, field_names, idx, result, related_model_cache,
                   getattr_log, evars, hvars>>

FlatNext ==
    \/ FlattenStep
    \/ FlattenReturn

FlatSpec == FlatInit /\ [][FlatNext]_vars

\* A second call _model_to_dict(instance, field_names) on the same record.
\* The whitelists of bare paths.
BareWhitelists == {f \in Whitelists : \A i \in DOMAIN f : Len(f[i]) = 1}

\* A flattener whose default cache is one dict kept between calls.
DefaultCacheShared(previous) == previous

\* if related_model_cache is None: related_model_cache = {}
DefaultCache(previous) == EmptyDict

IdemInit ==
    /\ EmitterIdle
    /\ request = NoRequest
    /\ world \in Worlds
    /\ field_names \in BareWhitelists
    /\ idx = 1
    /\ result = EmptyDict
    /\ related_model_cache = EmptyDict
    /\ getattr_log = <<>>
    /\ status = "running"
    /\ HistoryEmpty

\* The first call is over; the caller calls again with the same arguments
\* and no cache argument.
FlattenAgain ==
    /\ status \in {"returned", "raised"}
    /\ first_call = NoCall
    /\ first_call' = [made |-> TRUE, status |-> status, result |-> result,
                      log |-> getattr_log, world |-> world]
    /\ idx' = 1
    /\ result' = EmptyDict
    /\ related_model_cache' = DefaultCache(related_model_cache)
    /\ getattr_log' = <<>>
    /\ status' = "running"
    /\ UNCHANGED <<world, field_names, signals, evars>>

IdemNext ==
    \/ FlattenStep
    \/ FlattenReturn
    \/ FlattenAgain

IdemSpec == IdemInit /\ [][IdemNext]_vars

\* Entering  with transaction.atomic():  (Atomic.__enter__).
AtomicEnter ==
    /\ phase = "idle"
    /\ Len(atomic) < MaxDepth
    /\ nextBlock <= MaxBlocks
    /\ atomic' = Append(atomic, nextBlock)
    /\ outcome' = Append(outcome, "active")
    /\ nextBlock' = nextBlock + 1
    /\ UNCHANGED <<run_on_commit, phase, sink, request, clock, calls, fvars, hvars>>

\* Leaving an atomic block without an exception: a nested block releases its
\* savepoint, the outermost one commits and the hooks are then run.
AtomicCommit ==
    /\ phase = "idle"
    /\ in_atomic_block
    /\ LET b == atomic[Len(atomic)] IN
        /\ atomic' = SubSeq(atomic, 1, Len(atomic) - 1)
        /\ outcome' = [outcome EXCEPT ![b] = "committed"]
        /\ phase' = IF Len(atomic) = 1 /\ run_on_commit # <<>> THEN "hooks" ELSE "idle"
    /\ clock' = clock + 1
    /\ UNCHANGED <<run_on_commit, sink, request, calls, nextBlock, fvars, hvars>>

\* Leaving an atomic block with an exception: the block is rolled back and the
\* hooks registered inside it are dropped.
AtomicRollback ==
    /\ phase = "idle"
    /\ in_atomic_block
    /\ LET b == atomic[Len(atomic)] IN
        /\ atomic' = SubSeq(atomic, 1, Len(atomic) - 1)
        /\ outcome' = [outcome EXCEPT ![b] = "rolledback"]
        /\ run_on_commit' = SelectSeq(run_on_commit, LAMBDA h : b \notin h.sids)
    /\ UNCHANGED <<phase, sink, request, clock, calls, nextBlock, fvars, hvars>>

\* run_and_clear_commit_hooks: the hooks run one after the other, oldest first.
RunCommitHook ==
    /\ phase = "hooks"
    /\ LET h == Head(run_on_commit) IN
        /\ sink' = Emitted(sink, h.call, HookEvent(h))
        /\ run_on_commit' = Tail(run_on_commit)
        /\ phase' = IF Len(run_on_commit) = 1 THEN "idle" ELSE "hooks"
    /\ UNCHANGED <<atomic, request, clock, calls, outcome, nextBlock, fvars, hvars>>

\* _emit_event that ignores the transaction and always writes at once.
EmitEventImmediate(args) ==
    /\ phase = "idle"
    /\ Len(calls) < MaxCalls
    /\ LET event == BuildEvent(args, request, clock)
           c == Len(calls) + 1
       IN
        /\ calls' = Append(calls, [args |-> args, blocks |-> atomic,
                                   request |-> request, clock |-> clock])
        /\ sink' = Emitted(sink, c, event)
        /\ run_on_commit' = run_on_commit
    /\ clock' = clock + 1
    /\ UNCHANGED <<atomic, phase, request, outcome, nextBlock, fvars>>

\* _emit_event that registers its commit hook twice.
EmitEventTwice(args) ==
    /\ phase = "idle"
    /\ Len(calls) < MaxCalls
    /\ LET event == BuildEvent(args, request, clock)
           c == Len(calls) + 1
           h == [sids |-> {atomic[i] : i \in 1..Len(atomic)}, call |-> c, event |-> event]
       IN
        /\ calls' = Append(calls, [args |-> args, blocks |-> atomic,
                                   request |-> request, clock |-> clock])
        /\ IF in_atomic_block
           THEN /\ run_on_commit' = run_on_commit \o <<h, h>>
                /\ sink' = sink
           ELSE /\ sink' = Emitted(sink, c, event)
                /\ run_on_commit' = run_on_commit
    /\ clock' = clock + 1
    /\ UNCHANGED <<atomic, phase, request, outcome, nextBlock, fvars>>

\* _emit_event that defers to on_commit whether or not a block is open.
EmitEventAlwaysDefer(args) ==
    /\ phase = "idle"
    /\ Len(calls) < MaxCalls
    /\ LET event == BuildEvent(args, request, clock)
           c == Len(calls) + 1
       IN
        /\ calls' = Append(calls, [args |-> args, blocks |-> atomic,
                                   request |-> request, clock |-> clock])
        /\ run_on_commit' = Append(run_on_commit,
                [sids |-> {atomic[i] : i \in 1..Len(atomic)},
                 call |-> c, event |-> event])
        /\ sink' = sink
    /\ clock' = clock + 1
    /\ UNCHANGED <<atomic, phase, request, outcome, nextBlock, fvars>>

\* _emit_event that puts its commit hook in front of the ones already there.
EmitEventPrepend(args) ==
    /\ phase = "idle"
    /\ Len(calls) < MaxCalls
    /\ LET event == BuildEvent(args, request, clock)
           c == Len(calls) + 1
       IN
        /\ calls' = Append(calls, [args |-> args, blocks |-> atomic,
                                   request |-> request, clock |-> clock])
        /\ IF in_atomic_block
           THEN /\ run_on_commit' =
                        <<[sids |-> {atomic[i] : i \in 1..Len(atomic)},
                           call |-> c, event |-> event]>> \o run_on_commit
                /\ sink' = sink
           ELSE /\ sink' = Emitted(sink, c, event)
                /\ run_on_commit' = run_on_commit
    /\ clock' = clock + 1
    /\ UNCHANGED <<atomic, phase, request, outcome, nextBlock, fvars>>

\* _emit_event(sender, message, created, deleted)
EmitEvent(args) ==
    /\ phase = "idle"
    /\ Len(calls) < MaxCalls
    /\ LET event == BuildEvent(args, request, clock)
           c == Len(calls) + 1
       IN
        /\ calls' = Append(calls, [args |-> args, blocks |-> atomic,
                                   request |-> request, clock |-> clock])
        /\ IF in_atomic_block
           THEN /\ run_on_commit' = Append(run_on_commit,
                        [sids |-> {atomic[i] : i \in 1..Len(atomic)},
                         call |-> c, event |-> event])
                /\ sink' = sink
           ELSE /\ sink' = Emitted(sink, c, event)
                /\ run_on_commit' = run_on_commit
    /\ clock' = clock + 1
    /\ UNCHANGED <<atomic, phase, request, outcome, nextBlock, fvars>>

\* A request starts or ends on the thread, or another one is served.
SetRequest(r) ==
    /\ phase = "idle"
    /\ r # request
    /\ request' = r
    /\ UNCHANGED <<atomic, run_on_commit, phase, sink, clock, calls,
                   outcome, nextBlock, fvars, hvars>>

Next ==
    \/ AtomicEnter
    \/ AtomicCommit
    \/ AtomicRollback
    \/ RunCommitHook
    \/ \E args \in EmitArgs : EmitEvent(args) /\ UNCHANGED hvars
    \/ \E r \in {NoRequest} \cup Requests : SetRequest(r)

Spec == Init /\ [][Next]_vars

(***************************************************************************)
(* The signal handlers.  Each handler builds a message and calls           *)
(* _emit_event; an exception leaves the handler and reaches the write that *)
(* sent the signal.                                                        *)
(***************************************************************************)

\* event_fields: the whitelist of every record kind that has one.
event_fields ==
    [k \in {"CourseOverview", "CourseAccessRole", "User", "UserProfile",
            "CourseEnrollment", "BlockCompletion",
            "ProctoredExamStudentAttempt", "Submission", "Score"} |->
        CASE k = "CourseOverview" ->
                 << <<"created">>, <<"modified">>, <<"id">>, <<"display_name">>,
                    <<"invitation_only">>, <<"course_image_url">>, <<"effort">>,
                    <<"visible_to_staff_only">>, <<"start">>, <<"end">>,
                    <<"enrollment_start">>, <<"enrollment_end">>,
                    <<"certificate_available_date">>, <<"pacing">> >>
          [] k = "CourseAccessRole" ->
                 << <<"id">>, <<"user_id">>, <<"course_id">>, <<"org">>,
                    <<"role">> >>
          [] k = "User" ->
                 << <<"id">>, <<"username">>, <<"email">>, <<"is_active">>,
                    <<"is_staff">>, <<"is_superuser">>, <<"last_login">>,
                    <<"date_joined">> >>
          [] k = "UserProfile" ->
                 << <<"id">>, <<"user_id">>, <<"name">>, <<"year_of_birth">>,
                    <<"gender">> >>
          [] k = "CourseEnrollment" ->
                 << <<"created">>, <<"id">>, <<"user_id">>, <<"course_id">>,
                    <<"mode">>, <<"is_active">> >>
          [] k = "BlockCompletion" ->
                 << <<"user_id">>, <<"context_key">>, <<"block_key">> >>
          [] k = "ProctoredExamStudentAttempt" ->
                 << <<"created">>, <<"modified">>, <<"id">>, <<"user_id">>,
                    <<"status">>, <<"proctored_exam", "course_id">>,
                    <<"proctored_exam", "content_id">>,
                    <<"proctored_exam", "is_active">> >>
          [] k = "Submission" ->
                 << <<"id">>, <<"uuid">>, <<"student_item", "student_id">>,
                    <<"student_item", "course_id">>,
                    <<"student_item", "item_id">>, <<"attempt_number">>,
                    <<"submitted_at">>, <<"created_at">>, <<"answer">>,
                    <<"status">> >>
          [] k = "Score" ->
                 << <<"id">>, <<"submission", "uuid">>, <<"points_earned">>,
                    <<"points_possible">>, <<"created_at">>, <<"reset">> >>]

\* The @receiver lines of emit_model_event: <<signal, sender>>.
ModelReceivers ==
    { <<"post_save", "CourseOverview">>,
      <<"post_save", "CourseAccessRole">>,
      <<"post_delete", "CourseAccessRole">>,
      <<"post_save", "User">>,
      <<"post_save", "UserProfile">>,
      <<"post_save", "CourseEnrollment">>,
      <<"post_save", "ProctoredExamStudentAttempt">>,
      <<"post_delete", "ProctoredExamStudentAttempt">>,
      <<"post_save", "Score">>,
      <<"post_save", "Site">> }

\* The @receiver lines of emit_forumpost_event.
ForumSignals ==
    { "comment_created", "comment_edited", "comment_voted", "comment_deleted",
      "thread_created", "thread_edited", "thread_voted", "thread_deleted" }

\* True and False as the event carries them.
PyBool(b) == IF b THEN "true" ELSE "false"

\* The created argument a signal hands to its receivers: post_save sends
\* created=True or False, post_delete sends none and the parameter keeps its
\* default  created=None.
CreatedSent(signal) ==
    IF signal = "post_save" THEN {"true", "false"} ELSE {"null"}

\* An emit_model_event that flags every event as a deletion.
DeletedFlagAlways(signal) == "true"

\* deleted=signal is post_delete
DeletedFlag(signal) == PyBool(signal = "post_delete")

\* created=signal in [comment_created, thread_created]
ForumCreated(signal) == PyBool(signal \in {"comment_created", "thread_created"})

\* deleted=signal in [comment_deleted, thread_deleted]
ForumDeleted(signal) == PyBool(signal \in {"comment_deleted", "thread_deleted"})

\* An _emit_event whose flags default to False.
EmitKwargsDefaultFalse(kw) ==
    [created |-> IF "created" \in DOMAIN kw THEN kw.created ELSE "false",
     deleted |-> IF "deleted" \in DOMAIN kw THEN kw.deleted ELSE "false"]

\* def _emit_event(sender, message, created=None, deleted=None): the flags the
\* body sees for the keyword arguments kw of a call.
EmitKwargs(kw) ==
    [created |-> IF "created" \in DOMAIN kw THEN kw.created ELSE "null",
     deleted |-> IF "deleted" \in DOMAIN kw THEN kw.deleted ELSE "null"]

\* The parameters of the call _emit_event(sender, message, **kw).
EmitCall(sender, message, kw) ==
    [sender |-> sender, message |-> message,
     created |-> EmitKwargs(kw).created, deleted |-> EmitKwargs(kw).deleted]

\* No keyword arguments.
NoKwargs == [k \in {} |-> "null"]

\* A model class and a string tag as sender.
ClassSender(name) == [kind |-> "class", name |-> name]
StrSender(name) == [kind |-> "str", name |-> name]

\* True, False in a message.
BoolV(b) == [t |-> "bool", v |-> b]

\* The instance a signal of the given record kind carries, with the records
\* behind its relations.  r has the whitelisted attributes of its kind: the
\* attributes named in given hold the given values, id and user_id are
\* integers, a dotted path's first segment is a relation to the record rel,
\* and a kind with user_id has the relation user.  Every other attribute
\* holds a text standing for its value.
InstanceWorld(kind, given) ==
    LET paths == {event_fields[kind][i] : i \in DOMAIN event_fields[kind]}
        bare == {p[1] : p \in {q \in paths : Len(q) = 1}}
        dotted == {q \in paths : Len(q) = 2}
        relations == {p[1] : p \in dotted}
        user == IF "user_id" \in bare THEN {"user"} ELSE {}
    IN
    [r |-> [pk |-> IntV(1),
            attrs |-> [n \in bare \cup relations \cup user \cup DOMAIN given |->
                IF n \in DOMAIN given THEN given[n]
                ELSE IF n \in relations THEN Model("rel")
                ELSE IF n = "user" THEN Model("u")
                ELSE IF n = "user_id" THEN IntV(42)
                ELSE IF n = "id" THEN IntV(1)
                ELSE StrV(n)]],
     rel |-> [pk |-> IntV(2),
              attrs |-> [n \in {p[2] : p \in dotted} |-> StrV(n)]],
     u |-> [pk |-> IntV(42),
            attrs |-> [n \in {"id", "username"} |->
                CASE n = "id" -> IntV(42)
                  [] n = "username" -> StrV("alice")]]]

\* _model_to_dict(instance, event_fields[sender])
FlattenFor(sender, given) ==
    ModelToDict(InstanceWorld(sender, given), TopInstance, event_fields[sender],
                EmptyDict)

\* crum.get_current_user(): the user of the ambient request, if any.
CurrentUser(req) == IF req.kind = "request" THEN req.user ELSE "none"

\* user and user.is_authenticated
IsAuthenticated(user) == user \notin {"none", "anon"}

\* The handler invocation recorded in the history.
Invocation(handler, sender, signal, input, kw, ending, error, call) ==
    [handler |-> handler, sender |-> sender, signal |-> signal,
     input |-> input, passed |-> kw, outcome |-> ending, error |-> error,
     call |-> call]

\* The handler ends without a call to _emit_event: it returned early
\* ("skipped") or an exception left it ("raised").
EndsWithoutEmit(handler, sender, signal, input, ending, error) ==
    /\ signals' = Append(signals,
           Invocation(handler, sender, signal, input, NoKwargs, ending, error,
                      0))
    /\ UNCHANGED <<evars, fvars, first_call>>

\* The handler ends with  _emit_event(sender, message, **kw).
EndsWithEmit(handler, sender, signal, input, message, kw) ==
    /\ EmitEvent(EmitCall(sender, message, kw))
    /\ signals' = Append(signals,
           Invocation(handler, sender.name, signal, input, kw, "emitted",
                      "none", Len(calls) + 1))
    /\ first_call' = first_call

\* A handler can be invoked: signals are sent by writes of the thread,
\* between the runs of commit hooks.
CanSignal == phase = "idle" /\ Len(signals) < MaxSignals

emit_model_event(sender, signal, created) ==
    /\ CanSignal
    /\ IF sender \notin DOMAIN event_fields
       THEN EndsWithoutEmit("emit_model_event", sender, signal,
                            [created |-> created], "raised", "KeyError")
       ELSE LET st == FlattenFor(sender, EmptyDict) IN
            IF st.raised
            THEN EndsWithoutEmit("emit_model_event", sender, signal,
                                 [created |-> created], "raised",
                                 "AttributeError")
            ELSE EndsWithEmit("emit_model_event", ClassSender(sender), signal,
                              [created |-> created], Dict(st.result),
                              [created |-> created,
                               deleted |-> DeletedFlag(signal)])

\* post.to_dict()
PostDict == [id |-> StrV("post1"), body |-> StrV("text")]

emit_forumpost_event(signal) ==
    /\ CanSignal
    /\ LET user == CurrentUser(request)
           message == IF IsAuthenticated(user)
                      THEN Put(PostDict, "username", StrV(Username[user]))
                      ELSE PostDict
       IN EndsWithEmit("emit_forumpost_event", StrSender("ForumPost"), signal,
                       [user |-> user], Dict(message),
                       [created |-> ForumCreated(signal),
                        deleted |-> ForumDeleted(signal)])

\* The course's graders: raw_grader entries and the subgraders' results, in
\* hundredths.
RawGrader == << [type |-> "Homework", min_count |-> 2, weight |-> 100] >>
SubgradePercent == 50

\* grade_summary of emit_coursegrade_event.
GradeSummary(attempted) ==
    IF ~attempted THEN EmptyDict
    ELSE [f \in {RawGrader[i].type : i \in DOMAIN RawGrader} |->
            LET g == CHOOSE g \in {RawGrader[i] : i \in DOMAIN RawGrader} :
                         g.type = f
            IN Dict([n \in {"min_count", "weight", "percent",
                            "weighted_percent"} |->
                   CASE n = "min_count" -> IntV(g.min_count)
                     [] n = "weight" -> IntV(g.weight)
                     [] n = "percent" -> IntV(SubgradePercent)
                     [] n = "weighted_percent" ->
                            IntV((g.weight * SubgradePercent) \div 100)])]

emit_coursegrade_event(attempted) ==
    /\ CanSignal
    /\ LET message ==
              [n \in {"username", "course_id", "percent_grade", "letter_grade",
                      "passed", "grade_summary"} |->
                  CASE n = "username" -> StrV("alice")
                    [] n = "course_id" -> StrV("course-v1:X+Y")
                    [] n = "percent_grade" ->
                           IntV(IF attempted THEN SubgradePercent ELSE 0)
                    [] n = "letter_grade" -> None
                    [] n = "passed" -> BoolV(FALSE)
                    [] n = "grade_summary" -> Dict(GradeSummary(attempted))]
       IN EndsWithEmit("emit_coursegrade_event", StrSender("CourseGrade"),
                       "COURSE_GRADE_CHANGED", [attempted |-> attempted],
                       Dict(message), NoKwargs)

emit_subsectiongrade_event ==
    /\ CanSignal
    /\ LET message ==
              [n \in {"username", "course_id", "usage_key", "earned_all",
                      "possible_all", "earned_graded", "possible_graded"} |->
                  CASE n = "username" -> StrV("alice")
                    [] n = "course_id" -> StrV("course-v1:X+Y")
                    [] n = "usage_key" -> StrV("sequential1")
                    [] n = "earned_all" -> IntV(1)
                    [] n = "possible_all" -> IntV(2)
                    [] n = "earned_graded" -> IntV(1)
                    [] n = "possible_graded" -> IntV(2)]
       IN EndsWithEmit("emit_subsectiongrade_event",
                       StrSender("SubsectionGrade"), "SUBSECTION_SCORE_CHANGED",
                       NoKwargs, Dict(message), NoKwargs)

\* 1.0, the completion of a completed block, in hundredths.
CompleteAt == 100

\* A handler that emits for every completion value.
ShouldSkipNever(completion) == FALSE

\* if instance.completion < 1.0: return
ShouldSkip(completion) == completion < CompleteAt

\* modulestore().get_parent_location(location) and the parent's block_type.
ParentLocation ==
    [b \in {"problem1", "vertical1", "sequential1", "html2", "sequential2",
            "chapter1"} |->
        CASE b = "problem1" -> "vertical1"
          [] b = "vertical1" -> "sequential1"
          [] b = "html2" -> "sequential2"
          [] b = "sequential1" -> "chapter1"
          [] b = "sequential2" -> "chapter1"
          [] b = "chapter1" -> "course"]

BlockType ==
    [b \in {"problem1", "vertical1", "sequential1", "html2", "sequential2",
            "chapter1", "course"} |->
        CASE b = "problem1" -> "problem"
          [] b = "vertical1" -> "vertical"
          [] b = "html2" -> "html"
          [] b = "sequential1" -> "sequential"
          [] b = "sequential2" -> "sequential"
          [] b = "chapter1" -> "chapter"
          [] b = "course" -> "course"]

\* The blocks whose completion is recorded.
CompletableBlocks == {"problem1", "html2"}

RECURSIVE get_subsection_location(_)

get_subsection_location(location) ==
    LET parent_location == ParentLocation[location] IN
    IF BlockType[parent_location] = "sequential" THEN parent_location
    ELSE get_subsection_location(parent_location)

\* get_blocks(request, usage_key, user, nav_depth=2, ...): the subsection's
\* block data.  sequential1 is complete and has a due date; sequential2
\* carries neither field.
GetBlocks(usage_key) ==
    [root |-> usage_key,
     blocks |-> [k \in {usage_key} |->
         IF k = "sequential1"
         THEN [complete |-> BoolV(TRUE),
               due |-> ObjV("2024-06-01 00:00:00+00:00")]
         ELSE [id |-> StrV(k)]]]

\* d.get(k, default)
DictGet(d, k, default) == IF k \in DOMAIN d THEN d[k] ELSE default

\* str(value or "")
StrOrEmpty(value) ==
    IF ~Truthy(value) THEN StrV("")
    ELSE IF value.t = "str" THEN value ELSE StrOf(value)

emit_blockcompletion_event(completion, block_key) ==
    /\ CanSignal
    /\ LET input == [completion |-> completion, block_key |-> block_key] IN
       IF ShouldSkip(completion)
       THEN EndsWithoutEmit("emit_blockcompletion_event", "BlockCompletion",
                            "post_save", input, "skipped", "none")
       ELSE LET subsection_usage_key == get_subsection_location(block_key)
                blocks == GetBlocks(subsection_usage_key)
                subsection_block == blocks.blocks[blocks.root]
                subsection_complete ==
                    DictGet(subsection_block, "complete", BoolV(FALSE))
                st == FlattenFor("BlockCompletion",
                                 [block_key |-> ObjV(block_key),
                                  completion |-> IntV(completion)])
                extra == [n \in {"subsection_usage_key", "subsection_complete",
                                 "due"} |->
                    CASE n = "subsection_usage_key" -> StrV(subsection_usage_key)
                      [] n = "subsection_complete" -> subsection_complete
                      [] n = "due" ->
                             StrOrEmpty(DictGet(subsection_block, "due", None))]
            IN
            IF st.raised
            THEN EndsWithoutEmit("emit_blockcompletion_event",
                                 "BlockCompletion", "post_save", input,
                                 "raised", "AttributeError")
            ELSE EndsWithEmit("emit_blockcompletion_event",
                              ClassSender("BlockCompletion"), "post_save",
                              input, Dict(Update(st.result, extra)), NoKwargs)

\* user_by_anonymous_id(uuid): the user with that anonymous id, or None.
user_by_anonymous_id(uuid) == IF uuid = StrV("student_id") THEN "u1" ELSE "none"

emit_submission_event(created) ==
    /\ CanSignal
    /\ LET st == FlattenFor("Submission", EmptyDict)
           input == [created |-> created]
       IN
       IF st.raised
       THEN EndsWithoutEmit("emit_submission_event", "Submission", "post_save",
                            input, "raised", "AttributeError")
       ELSE LET uuid == st.result["student_item"].v["student_id"]
                user == user_by_anonymous_id(uuid)
            IN
            IF user = "none"
            THEN EndsWithoutEmit("emit_submission_event", "Submission",
                                 "post_save", input, "raised", "AttributeError")
            ELSE EndsWithEmit("emit_submission_event",
                              ClassSender("Submission"), "post_save", input,
                              Dict(Put(st.result, "username",
                                       StrV(Username[user]))),
                              [created |-> created])

\* The handlers, invoked outside transactions under any ambient request.
HandlerInit ==
    /\ EmitterIdle
    /\ request \in {NoRequest, AnonymousRequest} \cup Requests
    /\ FlattenerIdle
    /\ HistoryEmpty

HandlerNext ==
    \/ \E receiver \in ModelReceivers :
           \E created \in CreatedSent(receiver[1]) :
               emit_model_event(receiver[2], receiver[1], created)
    \/ \E signal \in ForumSignals : emit_forumpost_event(signal)
    \/ \E attempted \in BOOLEAN : emit_coursegrade_event(attempted)
    \/ emit_subsectiongrade_event
    \/ \E completion \in {0, 50, CompleteAt} :
           \E block_key \in CompletableBlocks :
               emit_blockcompletion_event(completion, block_key)
    \/ \E created \in {"true", "false"} : emit_submission_event(created)

HandlerSpec == HandlerInit /\ [][HandlerNext]_vars

\* Saves of BlockCompletion records inside and outside transactions.
CompletionNext ==
    \/ AtomicEnter
    \/ AtomicCommit
    \/ AtomicRollback
    \/ RunCommitHook
    \/ \E completion \in {0, 50, CompleteAt} :
           \E block_key \in CompletableBlocks :
               emit_blockcompletion_event(completion, block_key)

CompletionSpec == Init /\ [][CompletionNext]_vars

(***************************************************************************)
(* Properties of the emitter.                                              *)
(***************************************************************************)

\* json.loads of a written line.
JsonLoads(line) == line[2]

\* Number of lines the sink holds for call c.
LinesOf(c) == Cardinality({i \in DOMAIN sink : sink[i].call = c})

\* Call c was made inside an atomic block.
Deferred(c) == calls[c].blocks # <<>>

\* Some block enclosing call c was rolled back.
RolledBack(c) ==
    \E i \in DOMAIN calls[c].blocks : outcome[calls[c].blocks[i]] = "rolledback"

\* Every block enclosing call c has committed (the outermost one last).
Committed(c) ==
    \A i \in DOMAIN calls[c].blocks : outcome[calls[c].blocks[i]] = "committed"

\* Call c still has a hook waiting.
Pending(c) == \E i \in DOMAIN run_on_commit : run_on_commit[i].call = c

\* C1: a call made inside a unit-of-work that is rolled back never has a line
\* in the sink, in any later state, and its pending emission is gone.
C1_RollbackDiscards ==
    \A c \in DOMAIN calls :
        (Deferred(c) /\ RolledBack(c)) => (LinesOf(c) = 0 /\ ~Pending(c))

\* A call was rolled back and a later transaction has committed and written.
C1_Witness ==
    \E c \in DOMAIN calls, d \in DOMAIN calls :
        /\ Deferred(c) /\ RolledBack(c)
        /\ d > c /\ Deferred(d) /\ Committed(d) /\ LinesOf(d) = 1
        /\ phase = "idle"

\* C2: a call made inside a unit-of-work never has more than one line, has
\* none before the unit-of-work has committed, and has exactly one once the
\* commit and its hooks are done.
C2_CommitWritesOnce ==
    \A c \in DOMAIN calls :
        Deferred(c) =>
            /\ LinesOf(c) <= 1
            /\ (LinesOf(c) = 1 => Committed(c))
            /\ (Committed(c) /\ phase = "idle" => LinesOf(c) = 1 /\ ~Pending(c))

\* A call made two blocks deep whose line was written after the outer commit.
C2_Witness ==
    \E c \in DOMAIN calls :
        /\ Len(calls[c].blocks) = 2
        /\ Committed(c) /\ phase = "idle" /\ LinesOf(c) = 1

\* C3: a call made with no unit-of-work active has exactly one line in the
\* sink from the moment it returns, and leaves no hook behind.
C3_ImmediateWrite ==
    \A c \in DOMAIN calls :
        ~Deferred(c) => (LinesOf(c) = 1 /\ ~Pending(c))

\* A call outside any block has returned while a later block is open.
C3_Witness ==
    \E c \in DOMAIN calls :
        ~Deferred(c) /\ LinesOf(c) = 1 /\ in_atomic_block

\* C4: the lines of two calls made in the same unit-of-work appear in the
\* sink in the order of the calls.
C4_FifoOrder ==
    \A i \in DOMAIN sink, j \in DOMAIN sink :
        LET c == sink[i].call
            d == sink[j].call
        IN (/\ i < j
            /\ Deferred(c) /\ Deferred(d)
            /\ calls[c].blocks[1] = calls[d].blocks[1]) => c < d

\* Two calls of one unit-of-work have both been written.
C4_Witness ==
    \E i \in DOMAIN sink, j \in DOMAIN sink :
        /\ i < j
        /\ Deferred(sink[i].call) /\ Deferred(sink[j].call)
        /\ sink[i].call # sink[j].call
        /\ calls[sink[i].call].blocks[1] = calls[sink[j].call].blocks[1]

\* C5: every line of a deferred call carries the event type, flags, time,
\* client address, user name and user agent as they were when _emit_event was
\* called, and a waiting hook holds that same event.
C5_CaptureThenDefer ==
    /\ \A i \in DOMAIN sink :
        LET c == sink[i].call
            e == JsonLoads(sink[i].line)
        IN Deferred(c) =>
            /\ e.event_type = namespace \o "." \o Lower[SenderName(calls[c].args.sender)]
            /\ e.created = calls[c].args.created
            /\ e.deleted = calls[c].args.deleted
            /\ e.time = TimeStr(calls[c].clock)
            /\ e.client_ip = ClientIp(calls[c].request)
            /\ e.request_username = RequestUsername(calls[c].request)
            /\ e.user_agent = UserAgent(calls[c].request)
    /\ \A i \in DOMAIN run_on_commit :
        LET c == run_on_commit[i].call IN
        run_on_commit[i].event =
            BuildEvent(calls[c].args, calls[c].request, calls[c].clock)

\* A deferred line was written by a commit that ran under another request and
\* at a later time than the call.
C5_Witness ==
    /\ phase = "hooks"
    /\ \E i \in DOMAIN sink :
        LET c == sink[i].call IN
        /\ Deferred(c)
        /\ request # calls[c].request
        /\ calls[c].request # NoRequest
        /\ clock # calls[c].clock

(***************************************************************************)
(* Properties of the flattener.                                            *)
(***************************************************************************)

\* The attribute of the top-level record read by name.
Attr(name) == GetAttr(world, TopInstance, name)

\* The whitelist paths processed so far.
Processed == 1..(idx - 1)

\* Every whitelist path is bare and names a JSON-safe scalar of the record.
BareScalarWhitelist ==
    \A i \in DOMAIN field_names :
        /\ Len(field_names[i]) = 1
        /\ Attr(field_names[i][1]).t \in {"null", "int", "str"}

\* The whitelist holds the bare path name.
Whitelisted(name) == \E i \in DOMAIN field_names : field_names[i] = <<name>>

\* The record has a user attribute, and it is null.
NullUser == HasAttr(world, TopInstance, "user") /\ Attr("user") = None

\* The mapping a whitelist of bare paths stands for, built in whitelist
\* order: user_id on a record with a user attribute sets username to the
\* user's username, every other path sets its own key to the attribute.
RECURSIVE BareMapping(_, _)
BareMapping(names, acc) ==
    IF names = <<>> THEN acc
    ELSE LET name == Head(names)[1] IN
         BareMapping(Tail(names),
             IF name = "user_id" /\ HasAttr(world, TopInstance, "user")
             THEN Put(acc, "username",
                      GetAttr(world, Attr("user"), "username"))
             ELSE Put(acc, name, Attr(name)))

\* C6 as stated: a whitelist of bare scalar paths returns the mapping
\* path -> attribute value, user_id included.
C6_BareMappingAsStated ==
    (BareScalarWhitelist /\ status = "returned") =>
              result = [name \in {field_names[i][1] : i \in DOMAIN field_names}
                            |-> Attr(name)]

\* C6 amended: a whitelist of bare scalar paths returns the mapping built in
\* whitelist order where user_id on a record with a user attribute yields
\* username -> the user's username and no user_id key; the call raises
\* exactly when that user is null.
C6_BareMapping ==
    BareScalarWhitelist =>
        /\ status = "returned" => result = BareMapping(field_names, EmptyDict)
        /\ status = "returned" => ~(Whitelisted("user_id") /\ NullUser)
        /\ status = "raised" =>
              /\ field_names[idx - 1] = <<"user_id">>
              /\ NullUser

\* A bare scalar whitelist with user_id and x has returned username and x.
C6_Witness ==
    /\ BareScalarWhitelist
    /\ status = "returned"
    /\ Whitelisted("user_id")
    /\ DOMAIN result = {"username", "x"}

\* The values held by a result dict or by its sub-mappings.
ValuesOf(d) ==
    {d[k] : k \in DOMAIN d}
    \cup UNION {{d[k].v[j] : j \in DOMAIN d[k].v} : k \in {x \in DOMAIN d : d[x].t = "dict"}}

\* The bare whitelist paths whose resolved value is a related record.
RelatedBarePaths ==
    {field_names[i][1] : i \in {j \in DOMAIN field_names :
        /\ Len(field_names[j]) = 1
        /\ field_names[j][1] \in DOMAIN related_model_cache
        /\ related_model_cache[field_names[j][1]].t = "model"}}

\* C7 as stated: a bare path p resolved to a related record gives key p_id
\* holding the record's primary key, and the result has no key p.
C7_RelationCollapseAsStated ==
    status = "returned" =>
        \A name \in RelatedBarePaths :
            /\ (name \o "_id") \in DOMAIN result
            /\ result[name \o "_id"] = world[related_model_cache[name].id].pk
            /\ name \notin DOMAIN result
            /\ \A v \in ValuesOf(result) : v.t # "model"

\* C7 amended: key p_id holds the primary key, or its string form when the
\* key is not JSON-encodable; a key p is there only as the sub-mapping of a
\* dotted path p__...; no value of the result is a record.
C7_RelationCollapse ==
    status = "returned" =>
        \A name \in RelatedBarePaths :
            LET pk == world[related_model_cache[name].id].pk IN
            /\ (name \o "_id") \in DOMAIN result
            /\ result[name \o "_id"] = (IF JsonEncodable(pk) THEN pk ELSE StrV(pk.v))
            /\ name \in DOMAIN result =>
                  /\ result[name].t = "dict"
                  /\ \E i \in DOMAIN field_names :
                        Len(field_names[i]) > 1 /\ field_names[i][1] = name
            /\ \A v \in ValuesOf(result) : v.t # "model"

\* Bare a and dotted a__x on a record whose relation a has a key that is
\* not JSON-encodable.
C7_Witness ==
    /\ status = "returned"
    /\ "a" \in RelatedBarePaths
    /\ "a_id" \in DOMAIN result /\ result["a_id"].t = "str"
    /\ "a" \in DOMAIN result

\* The record behind relation a of the top-level record.
RelatedA == Attr("a")

\* C8 as stated, for the dotted paths a__x and a__y of a record whose
\* relation a is set: one key a, a sub-mapping with entries x and y, each
\* the attribute of the related record.
C8_DottedGrouping ==
    (/\ status = "returned"
     /\ RelatedA.t = "model"
     /\ \E i \in DOMAIN field_names : field_names[i] = <<"a", "x">>
     /\ \E i \in DOMAIN field_names : field_names[i] = <<"a", "y">>)
    =>
        /\ "a" \in DOMAIN result
        /\ result["a"].t = "dict"
        /\ {"x", "y"} \subseteq DOMAIN result["a"].v
        /\ result["a"].v["x"] = GetAttr(world, RelatedA, "x")
        /\ result["a"].v["y"] = GetAttr(world, RelatedA, "y")

\* Number of getattr calls made on the top-level record for key.
Fetches(key) ==
    Cardinality({i \in DOMAIN getattr_log : getattr_log[i] = <<TopInstance, key>>})

\* C9 as stated: every top-level key is fetched from the record at most
\* once in a call, whatever its value.
C9_FetchedOnce ==
    \A i \in DOMAIN field_names : Fetches(field_names[i][1]) <= 1

\* The bare path processed by the last step, if any.
LastBare == idx > 1 /\ Len(field_names[idx - 1]) = 1

\* C10 as stated: after a bare path is processed the call has not raised and
\* the path's key holds the resolved value, or its string form when the
\* value is not JSON-encodable.
C10_NonFailingAsStated ==
    LastBare =>
        LET name == field_names[idx - 1][1]
            v == related_model_cache[name]
        IN /\ status # "raised"
           /\ name \in DOMAIN result
           /\ result[name] = (IF JsonEncodable(v) THEN v ELSE StrOf(v))

\* C10 amended: the same for a bare path that reaches the serialization
\* step: its value is neither a manager nor a related record, and it is not
\* user_id on a record with a user attribute.
C10_NonFailing ==
    LastBare =>
        LET name == field_names[idx - 1][1]
            v == related_model_cache[name]
        IN (/\ v.t \notin {"manager", "model"}
            /\ ~(name = "user_id" /\ HasAttr(world, TopInstance, "user")))
           =>
           /\ status # "raised"
           /\ name \in DOMAIN result
           /\ result[name] = (IF v.t = "obj" THEN StrV(v.v) ELSE v)

\* The datetime of the record has just been stored as its string form.
C10_Witness ==
    /\ LastBare
    /\ field_names[idx - 1] = <<"when">>
    /\ status = "running"
    /\ result["when"] = StrV("2024-01-01 00:00:00+00:00")

\* The whitelist path processed by the last step.
LastPath == field_names[idx - 1]

\* C11 as stated: a path that does not resolve on the record (a missing or
\* null attribute, a dotted path through a null relation, user_id on a record
\* whose user is null) does not raise, and its entry is null.
C11_MissingIsNull ==
    idx > 1 =>
        LET key == LastPath[1] IN
        /\ (Len(LastPath) = 1 /\ Attr(key) = None) =>
              /\ status # "raised"
              /\ key \in DOMAIN result /\ result[key] = None
        /\ (LastPath = <<"user_id">> /\ NullUser) => status # "raised"
        /\ (Len(LastPath) = 2 /\ Attr(key) = None) =>
              /\ status # "raised"
              /\ key \in DOMAIN result /\ result[key].t = "dict"
              /\ LastPath[2] \in DOMAIN result[key].v
              /\ result[key].v[LastPath[2]] = None

\* C17 as stated: the entry of a dotted path k__s is attribute s of the
\* record behind k, and the entry of a bare scalar path is the attribute of
\* the top-level record, whatever else the whitelist holds.
C17_PathIndependence ==
    (idx > 1 /\ status # "raised") =>
        LET key == LastPath[1] IN
        /\ (Len(LastPath) = 2 /\ Attr(key).t = "model") =>
              /\ key \in DOMAIN result /\ result[key].t = "dict"
              /\ LastPath[2] \in DOMAIN result[key].v
              /\ result[key].v[LastPath[2]] = GetAttr(world, Attr(key), LastPath[2])
        /\ (/\ Len(LastPath) = 1
            /\ Attr(key).t \in {"null", "int", "str"}
            /\ ~(key = "user_id" /\ HasAttr(world, TopInstance, "user"))) =>
              /\ key \in DOMAIN result
              /\ result[key] = Attr(key)

\* C12: the second of two successive calls on a whitelist of bare paths ends
\* as the first did, with the same output, on an unchanged record, and has
\* fetched every attribute again (nothing of the first call's cache is used).
C12_Idempotent ==
    (first_call.made /\ status \in {"returned", "raised"}) =>
        /\ status = first_call.status
        /\ result = first_call.result
        /\ world = first_call.world
        /\ getattr_log = first_call.log

\* A second call over two paths or more has returned a non-empty mapping.
C12_Witness ==
    /\ first_call.made
    /\ status = "returned"
    /\ Len(field_names) >= 2
    /\ DOMAIN result # {}
    /\ Len(getattr_log) >= 2

RECURSIVE Depth(_)

\* How deep a value nests mappings: 0 for a value that is not a mapping.
Depth(v) ==
    IF v.t # "dict" THEN 0
    ELSE IF DOMAIN v.v = {} THEN 1
    ELSE LET below == {Depth(v.v[k]) : k \in DOMAIN v.v}
         IN 1 + (CHOOSE d \in below : \A e \in below : e <= d)

\* The separators of the whitelist's longest path.
Separators ==
    LET counts == {Len(field_names[i]) - 1 : i \in DOMAIN field_names}
    IN CHOOSE n \in counts : \A m \in counts : m <= n

\* C15 as stated: the returned mapping nests one level at most, and for
\* a__b__x the sub-mapping under a has the single key "b__x".
C15_OneLevelAsStated ==
    status = "returned" =>
        /\ \A k \in DOMAIN result :
              result[k].t = "dict" =>
                  \A j \in DOMAIN result[k].v : result[k].v[j].t # "dict"
        /\ (\E i \in DOMAIN field_names : field_names[i] = <<"a", "b", "x">>) =>
              /\ "a" \in DOMAIN result /\ result["a"].t = "dict"
              /\ "b__x" \in DOMAIN result["a"].v

\* C15: the returned mapping nests one level per separator of the longest
\* path, and a path a__b__x processed without a raise leaves under a a
\* mapping whose entry b is a mapping with the entry x (no key "b__x").
C15_NestsPerSeparator ==
    /\ status = "returned" => Depth(Dict(result)) <= 1 + Separators
    /\ (idx > 1 /\ status # "raised" /\ LastPath = <<"a", "b", "x">>) =>
          /\ "a" \in DOMAIN result /\ result["a"].t = "dict"
          /\ "b__x" \notin DOMAIN result["a"].v
          /\ "b" \in DOMAIN result["a"].v /\ result["a"].v["b"].t = "dict"
          /\ "x" \in DOMAIN result["a"].v["b"].v
          /\ result["a"].v["b"].v["x"].t # "dict"

\* A call over a__b__x has returned a mapping three levels deep.
C15_Witness ==
    /\ status = "returned"
    /\ \E i \in DOMAIN field_names : field_names[i] = <<"a", "b", "x">>
    /\ Depth(Dict(result)) = 3
    /\ result["a"].v["b"].v["x"] = StrV("deep")

\* The parsed line the sink holds for call c.
LineOf(c) ==
    JsonLoads((CHOOSE e \in {sink[i] : i \in DOMAIN sink} : e.call = c).line)

\* The event type expected for every sender name.
ExpectedType ==
    [n \in {"ForumPost", "CourseGrade", "SubsectionGrade", "CourseOverview",
            "CourseAccessRole", "User", "UserProfile", "CourseEnrollment",
            "BlockCompletion", "ProctoredExamStudentAttempt", "Submission",
            "Score"} |->
        CASE n = "ForumPost" -> "operation_event.signals.forumpost"
          [] n = "CourseGrade" -> "operation_event.signals.coursegrade"
          [] n = "SubsectionGrade" -> "operation_event.signals.subsectiongrade"
          [] n = "CourseOverview" -> "operation_event.signals.courseoverview"
          [] n = "CourseAccessRole" -> "operation_event.signals.courseaccessrole"
          [] n = "User" -> "operation_event.signals.user"
          [] n = "UserProfile" -> "operation_event.signals.userprofile"
          [] n = "CourseEnrollment" -> "operation_event.signals.courseenrollment"
          [] n = "BlockCompletion" -> "operation_event.signals.blockcompletion"
          [] n = "ProctoredExamStudentAttempt" ->
                 "operation_event.signals.proctoredexamstudentattempt"
          [] n = "Submission" -> "operation_event.signals.submission"
          [] n = "Score" -> "operation_event.signals.score"]

\* C13: the line written for a call of _emit_event has the namespace, a dot
\* and the lower-cased sender name as event_type, the message passed in, and
\* as created and deleted the values the caller passed, null for a flag the
\* caller did not pass.
C13_Envelope ==
    \A i \in DOMAIN signals :
        signals[i].outcome = "emitted" =>
            LET s == signals[i]
                line == LineOf(s.call)
            IN
            /\ LinesOf(s.call) = 1
            /\ line.event_type = ExpectedType[s.sender]
            /\ line.message = calls[s.call].args.message
            /\ line.created = IF "created" \in DOMAIN s.passed
                              THEN s.passed.created ELSE "null"
            /\ line.deleted = IF "deleted" \in DOMAIN s.passed
                              THEN s.passed.deleted ELSE "null"

\* A string-tag sender that passed no flag and a record-kind sender that
\* passed created=True have both written their line.
C13_Witness ==
    /\ Len(sink) = 2
    /\ \E i, j \in DOMAIN signals :
          /\ signals[i].handler = "emit_coursegrade_event"
          /\ signals[i].outcome = "emitted"
          /\ LineOf(signals[i].call).created = "null"
          /\ signals[j].handler = "emit_model_event"
          /\ signals[j].outcome = "emitted"
          /\ signals[j].sender = "CourseEnrollment"
          /\ LineOf(signals[j].call).created = "true"

\* C14 as stated: an event built without a request context is written with
\* client_ip, request_username and user_agent all null; an event built under
\* a request without an authenticated user is written with a null
\* request_username.
C14_AmbientAbsence ==
    \A c \in DOMAIN calls :
        /\ calls[c].request = NoRequest =>
              /\ LinesOf(c) = 1
              /\ LineOf(c).client_ip = "null"
              /\ LineOf(c).request_username = "null"
              /\ LineOf(c).user_agent = "null"
        /\ (/\ calls[c].request # NoRequest
            /\ ~IsAuthenticated(calls[c].request.user)) =>
              /\ LinesOf(c) = 1
              /\ LineOf(c).request_username = "null"

\* C16 as stated: every invocation of a whitelist-using handler is for a
\* record kind with an entry in event_fields and does not end in the
\* KeyError of a missing whitelist.
C16_RegisteredHaveWhitelist ==
    \A i \in DOMAIN signals :
        signals[i].handler \in {"emit_model_event",
                                "emit_blockcompletion_event",
                                "emit_submission_event"} =>
            /\ signals[i].sender \in DOMAIN event_fields
            /\ signals[i].error # "KeyError"

\* C18: an event of emit_model_event or emit_forumpost_event has deleted true
\* when its signal is post_delete, comment_deleted or thread_deleted and
\* false otherwise, and never has created and deleted both true.
C18_DeletedFlag ==
    \A i \in DOMAIN signals :
        (/\ signals[i].outcome = "emitted"
         /\ signals[i].handler \in {"emit_model_event",
                                    "emit_forumpost_event"}) =>
            LET line == LineOf(signals[i].call) IN
            /\ line.deleted =
                  IF signals[i].signal \in {"post_delete", "comment_deleted",
                                            "thread_deleted"}
                  THEN "true" ELSE "false"
            /\ ~(line.created = "true" /\ line.deleted = "true")

\* A record deletion and the creation of a forum thread have both been
\* written.
C18_Witness ==
    \E i, j \in DOMAIN signals :
        /\ signals[i].signal = "post_delete"
        /\ signals[i].outcome = "emitted"
        /\ LineOf(signals[i].call).deleted = "true"
        /\ LineOf(signals[i].call).created = "null"
        /\ signals[j].signal = "thread_created"
        /\ signals[j].outcome = "emitted"
        /\ LineOf(signals[j].call).created = "true"
        /\ LineOf(signals[j].call).deleted = "false"

\* The saves of BlockCompletion records, and those of completed blocks.
CompletionSaves ==
    {i \in DOMAIN signals : signals[i].handler = "emit_blockcompletion_event"}

CompleteSaves ==
    {i \in CompletionSaves : signals[i].input.completion >= CompleteAt}

====
